---- MODULE Spec2Model ----
(***************************************************************************)
(* Model of vehicle_tracking/tauri-map/src-tauri/src/main.rs: the          *)
(* WebSocket port resolver (get_ws_port), the publication of ws-config.js  *)
(* (write_ws_config), the get_map_config host command and the start-up     *)
(* sequence of main.                                                       *)
(*                                                                         *)
(* Strings that the program parses or formats are sequences of one-        *)
(* character strings, so that parsing and formatting are computed and not  *)
(* assumed.  Arguments and environment values are valid Unicode strings.   *)
(* An Option is a sequence of length at most one.                          *)
(***************************************************************************)
EXTENDS Integers, Sequences, FiniteSets, TLC

\* ------------------------------------------------------------- bounds
\* Host commands invoked after start-up in the sequential specification.
MaxCalls == 2
\* Concurrent host-command invocations in the interleaved specification.
MaxThreads == 2
\* Lines of the payload a short write stops after, in the interleaved
\* specification.
WriteChunk == 2

\* ------------------------------------------------------------- Option
None == <<>>
Some(v) == <<v>>
IsSome(o) == o # <<>>
Unwrap(o) == o[1]

\* ------------------------------------------------------------- text
Digits == <<"0", "1", "2", "3", "4", "5", "6", "7", "8", "9">>
DigitSet == {Digits[i] : i \in 1..10}
DigitVal(c) == (CHOOSE i \in 1..10 : Digits[i] = c) - 1

\* u16::MAX, the range of the port type
MaxU16 == 65535
\* the fallback of unwrap_or
DefaultPort == 8765

\* format!("{}", port): the decimal digits of an unsigned integer
RECURSIVE ToStr(_)
ToStr(n) == IF n < 10 THEN <<Digits[n + 1]>>
            ELSE ToStr(n \div 10) \o <<Digits[(n % 10) + 1]>>

\* A digit loop that wraps around instead of reporting the overflow.
RECURSIVE ParseDigits_Wrapping(_, _)
ParseDigits_Wrapping(s, acc) ==
    IF s = <<>> THEN Some(acc)
    ELSE IF Head(s) \notin DigitSet THEN None
    ELSE ParseDigits_Wrapping(Tail(s), (acc * 10 + DigitVal(Head(s))) % (MaxU16 + 1))

\* The digit loop of <u16 as FromStr>::from_str: checked multiply and add,
\* an error on the first character that is not an ASCII digit.
RECURSIVE ParseDigits(_, _)
ParseDigits(s, acc) ==
    IF s = <<>> THEN Some(acc)
    ELSE IF Head(s) \notin DigitSet THEN None
    ELSE LET v == acc * 10 + DigitVal(Head(s))
         IN  IF v > MaxU16 THEN None ELSE ParseDigits(Tail(s), v)

\* str::parse::<u16>().ok(): empty, a lone sign, a minus sign, any other
\* character and overflow give None; one leading plus sign is accepted.
ParseU16(s) ==
    IF s = <<>> THEN None
    ELSE IF Len(s) = 1 /\ Head(s) \in {"+", "-"} THEN None
    ELSE IF Head(s) = "+" THEN ParseDigits(Tail(s), 0)
    ELSE ParseDigits(s, 0)

WsPortPrefix == <<"-", "-", "w", "s", "-", "p", "o", "r", "t", "=">>
StartsWith(s, p) == Len(s) >= Len(p) /\ SubSeq(s, 1, Len(p)) = p
StripPrefix(s, p) == SubSeq(s, Len(p) + 1, Len(s))

\* ------------------------------------------------------------- resolution
\* std::env::args().nth(1).and_then(..): the port the first argument gives
ArgPort(argv) ==
    IF Len(argv) < 2 THEN None
    ELSE LET arg == argv[2]
         IN  IF StartsWith(arg, WsPortPrefix)
             THEN ParseU16(StripPrefix(arg, WsPortPrefix))
             ELSE ParseU16(arg)

\* the or_else closure: TAURI_WS_PORT, when set, parsed
EnvPort(env) == IF IsSome(env) THEN ParseU16(Unwrap(env)) ELSE None

\* A resolver that asks the environment before the argument.
ResolvePort_EnvFirst(argv, env) ==
    IF IsSome(EnvPort(env)) THEN Unwrap(EnvPort(env))
    ELSE IF IsSome(ArgPort(argv)) THEN Unwrap(ArgPort(argv))
    ELSE DefaultPort

\* lines 15-36: argument, else environment, else 8765
ResolvePort(argv, env) ==
    IF IsSome(ArgPort(argv)) THEN Unwrap(ArgPort(argv))
    ELSE IF IsSome(EnvPort(env)) THEN Unwrap(EnvPort(env))
    ELSE DefaultPort

\* ------------------------------------------------------------- paths
\* An absolute path is the sequence of its components; the root is <<>>.
\* Path::parent: None for the root.
Parent(p) == IF p = <<>> THEN None ELSE Some(SubSeq(p, 1, Len(p) - 1))
Join(p, c) == Append(p, c)
AndThenParent(o) == IF IsSome(o) THEN Parent(Unwrap(o)) ELSE None

\* lines 52-56: three parents above the executable's directory, then
\* src/ws-config.js
SrcPath(exe_dir) ==
    LET up == AndThenParent(AndThenParent(Parent(exe_dir)))
    IN  IF IsSome(up) THEN Some(Join(Join(Unwrap(up), "src"), "ws-config.js"))
        ELSE None

\* ------------------------------------------------------------- artifact
\* lines 59-69: the payload, one record per line of the file
ConfigContent(port, ts) ==
    << [k |-> "comment", v |-> <<>>],
       [k |-> "open", v |-> <<>>],
       [k |-> "port", v |-> ToStr(port)],
       [k |-> "timestamp", v |-> ts],
       [k |-> "close", v |-> <<>>],
       [k |-> "log", v |-> ToStr(port)] >>

\* What a reader of the file finds in it.
Declarations(content) == {i \in 1..Len(content) : content[i].k = "open"}
PortFields(content) == {ParseU16(content[i].v) : i \in {j \in 1..Len(content) : content[j].k = "port"}}
LoggedPorts(content) == {ParseU16(content[i].v) : i \in {j \in 1..Len(content) : content[j].k = "log"}}

\* A write that opens the file for appending.
FsWrite_Append(dirState, old, content) ==
    CASE dirState = "writable" ->
           [res |-> "Ok", file |-> Some((IF IsSome(old) THEN Unwrap(old) ELSE <<>>) \o content)]
      [] dirState = "denied"   -> [res |-> "PermissionDenied", file |-> old]
      [] dirState = "missing"  -> [res |-> "NotFound", file |-> None]
      [] dirState = "full"     -> [res |-> "StorageFull", file |-> old]

\* fs::write on the target: create or truncate, then write everything.
\* dirState is what the call finds on disk:
\*   writable: the file becomes exactly the payload
\*   denied:   the open fails, the file is untouched
\*   missing:  the directory does not exist (nor the file), the open fails
\*   full:     the open truncates, the write fails
FsWrite(dirState, old, content) ==
    CASE dirState = "writable" -> [res |-> "Ok", file |-> Some(content)]
      [] dirState = "denied"   -> [res |-> "PermissionDenied", file |-> old]
      [] dirState = "missing"  -> [res |-> "NotFound", file |-> None]
      [] dirState = "full"     -> [res |-> "StorageFull", file |-> Some(<<>>)]

\* lines 48-56: the target of the publication.  current_exe().unwrap() and
\* parent().unwrap() panic; fewer than three directories above the
\* executable's directory give no path.
TargetPath(exePath) ==
    IF ~IsSome(exePath) THEN [panic |-> TRUE, path |-> None]
    ELSE IF ~IsSome(Parent(Unwrap(exePath))) THEN [panic |-> TRUE, path |-> None]
    ELSE [panic |-> FALSE, path |-> SrcPath(Unwrap(Parent(Unwrap(exePath))))]

\* write_ws_config, lines 46-77.  A panic leaves through the caller; no
\* path is a silent return; a write error is printed with eprintln!, a
\* success with println!.
write_ws_config(port, exePath, ts, dirState, old) ==
    LET target == TargetPath(exePath)
    IN  IF target.panic
        THEN [outcome |-> "panicked", diag |-> "panic", file |-> old, path |-> None]
        ELSE IF ~IsSome(target.path)
        THEN [outcome |-> "no_path", diag |-> "none", file |-> old, path |-> None]
        ELSE LET w == FsWrite(dirState, old, ConfigContent(port, ts))
             IN  IF w.res = "Ok"
                 THEN [outcome |-> "written", diag |-> "none",
                       file |-> w.file, path |-> target.path]
                 ELSE [outcome |-> "write_failed", diag |-> "write_error",
                       file |-> w.file, path |-> target.path]

\* A resolver that publishes only while no artifact exists yet.
get_ws_port_Cached(argv, env, exePath, ts, dirState, old) ==
    LET port == ResolvePort(argv, env)
        pub == write_ws_config(port, exePath, ts, dirState, old)
    IN  IF IsSome(old)
        THEN [port |-> port, pubs |-> <<>>, file |-> old, ret |-> Some(port)]
        ELSE [port |-> port, pubs |-> <<pub>>, file |-> pub.file,
              ret |-> IF pub.outcome = "panicked" THEN None ELSE Some(port)]

\* get_ws_port, lines 9-44: resolve, print the final port, publish, return.
\* pubs are the calls of write_ws_config made; ret is None when the
\* publication panicked.
get_ws_port(argv, env, exePath, ts, dirState, old) ==
    LET port == ResolvePort(argv, env)
        pub == write_ws_config(port, exePath, ts, dirState, old)
    IN  [port |-> port,
         pubs |-> <<pub>>,
         file |-> pub.file,
         ret |-> IF pub.outcome = "panicked" THEN None ELSE Some(port)]

\* A record whose port is the default instead of the resolved one.
get_map_config_Default(token, call) ==
    [mapboxToken |-> token, wsPort |-> DefaultPort]

\* get_map_config, lines 80-85
get_map_config(token, call) ==
    [mapboxToken |-> token, wsPort |-> Unwrap(call.ret)]

\* line 106: the script handed to window.eval
NavUrlPrefix == <<"m", "a", "p", "b", "o", "x", ".", "h", "t", "m", "l", "?", "p", "o", "r", "t", "=">>
\* A navigation target with the default port written into it.
NavUrl_Default(port) == NavUrlPrefix \o ToStr(DefaultPort)
NavUrl(port) == NavUrlPrefix \o ToStr(port)

\* ------------------------------------------------------------- inputs
Chars_abc == <<"a", "b", "c">>
Argv0 == <<"t", "a", "u", "r", "i", "-", "m", "a", "p">>
ArgPorts == {0, 80, 9999, MaxU16}
TooBig == {MaxU16 + 1, 99999}
\* first arguments that name a port
GoodArgs == {ToStr(n) : n \in ArgPorts} \cup {WsPortPrefix \o ToStr(n) : n \in ArgPorts}
\* first arguments that are numbers outside the u16 range
OutOfRangeArgs == {ToStr(n) : n \in TooBig} \cup {WsPortPrefix \o ToStr(n) : n \in TooBig}
\* first arguments that are no number at all
MalformedArgs ==
    { <<>>, Chars_abc, WsPortPrefix, WsPortPrefix \o Chars_abc,
      <<"-", "1">>, <<" ", "8", "0">>, WsPortPrefix \o <<"8", "0", "x">>,
      SubSeq(WsPortPrefix, 1, 9) \o <<"8", "0">>,
      <<"-", "-", "W", "S", "-", "P", "O", "R", "T", "=">> \o <<"8", "0">> }
\* first arguments u16's parser accepts beyond the plain decimal form
LenientArgs == { <<"+", "8", "0">>, <<"0", "0", "7">>, WsPortPrefix \o <<"+", "8", "0">> }
NoValueArgs == OutOfRangeArgs \cup MalformedArgs

EnvPortValues == {80, 7000}
GoodEnv == {Some(ToStr(n)) : n \in EnvPortValues}
BadEnv == {Some(<<>>), Some(Chars_abc), Some(ToStr(MaxU16 + 1)), Some(<<"8", "0", " ">>)}

WideArgvs ==
    {<<Argv0>>}
    \cup {<<Argv0, a>> : a \in GoodArgs \cup NoValueArgs \cup LenientArgs}
    \cup {<<Argv0, Chars_abc, ToStr(80)>>, <<Argv0, ToStr(80), WsPortPrefix \o ToStr(9999)>>}
WideEnvs == {None} \cup GoodEnv \cup BadEnv

NarrowArgvs == {<<Argv0>>, <<Argv0, WsPortPrefix \o ToStr(9999)>>}
NarrowEnvs == {None, Some(ToStr(7000))}

Tokens == {None, Some("pk.token")}
\* the local time of a call, formatted %Y-%m-%d %H:%M:%S
Timestamps == {<<"2024-05-01 10:00:00">>, <<"2024-05-01 10:00:01">>}
\* std::env::current_exe(): an error, or the path of the executable
BuildLayout == <<"tauri-map", "src-tauri", "target", "release", "tauri-map.exe">>
ExePaths ==
    { None, Some(<<>>), Some(<<"opt", "app", "tauri-map">>),
      Some(<<"opt", "app", "bin", "tauri-map">>), Some(BuildLayout) }
DirStates == {"writable", "denied", "missing", "full"}

\* ------------------------------------------------------------- state
VARIABLES
    argv,         \* the process's argument list, argv[1] the program name
    envPort,      \* TAURI_WS_PORT: None when unset
    envToken,     \* MAPBOX_TOKEN: None when unset
    exe,          \* what current_exe() returns
    devtools,     \* whether the build has the devtools feature
    file,         \* the artifact: None when absent, else its lines
    pc,           \* where main is
    ws_port,      \* main's ws_port, None before line 90
    startup,      \* the record of the start-up call of get_ws_port
    last,         \* the most recent call of get_ws_port and its caller
    mapConfig,    \* the most recent result of get_map_config
    invocations,  \* calls of get_ws_port so far
    attempts,     \* calls of write_ws_config so far
    window,       \* what app.get_window("main") gave setup
    setupResult,  \* what the setup closure returned
    nav,          \* the navigation thread: none, spawned, done
    navScript,    \* the URL the navigation thread evaluated
    navOutcome,   \* what window.eval returned, which the thread drops
    navCount,     \* evaluations of the navigation script
    dev,          \* the devtools thread: none, spawned, opened
    threads       \* host commands in flight (interleaved specification)

vars == <<argv, envPort, envToken, exe, devtools, file, pc, ws_port, startup,
          last, mapConfig, invocations, attempts, window, setupResult, nav,
          navScript, navOutcome, navCount, dev, threads>>

inputs == <<argv, envPort, envToken, exe, devtools>>
hostVars == <<window, setupResult, nav, navScript, navOutcome, navCount, dev>>

\* A host command in flight: st is idle, opening, writing, done or returned;
\* content is the payload it formatted, off the lines it has written, res
\* how its publication ended.
Idle == [st |-> "idle", caller |-> "none", port |-> 0, content |-> <<>>,
         off |-> 0, res |-> "none"]

InitWith(argvs, envs, tokens, exes, builds) ==
    /\ argv \in argvs
    /\ envPort \in envs
    /\ envToken \in tokens
    /\ exe \in exes
    /\ devtools \in builds
    /\ file = None
    /\ pc = "start"
    /\ ws_port = None
    /\ startup = None
    /\ last = None
    /\ mapConfig = None
    /\ invocations = 0
    /\ attempts = 0
    /\ window = None
    /\ setupResult = None
    /\ nav = "none"
    /\ navScript = None
    /\ navOutcome = None
    /\ navCount = 0
    /\ dev = "none"
    /\ threads = [t \in 1..MaxThreads |-> Idle]

Init == InitWith(NarrowArgvs, NarrowEnvs, Tokens, ExePaths, BOOLEAN)

\* ------------------------------------------------------------- actions
\* One call of get_ws_port by caller c: its effect on the artifact and on
\* the record of calls.
Call(c, r) ==
    /\ file' = r.file
    /\ last' = Some([caller |-> c, call |-> r])
    /\ invocations' = invocations + 1
    /\ attempts' = attempts + Len(r.pubs)

\* main, line 90: the start-up resolution.  A panic ends the process.
Startup ==
    /\ pc = "start"
    /\ \E ts \in Timestamps, d \in DirStates :
         LET r == get_ws_port(argv, envPort, exe, ts, d, file)
         IN  /\ Call("main", r)
             /\ startup' = Some(r)
             /\ ws_port' = r.ret
             /\ pc' = IF IsSome(r.ret) THEN "resolved" ELSE "panicked"
    /\ UNCHANGED <<inputs, mapConfig, hostVars, threads>>

\* lines 94-95, 124: the builder is built and the host initialised
HostInit ==
    /\ pc = "resolved"
    /\ pc' = "host_init"
    /\ UNCHANGED <<inputs, file, ws_port, startup, last, mapConfig,
                   invocations, attempts, hostVars, threads>>

\* line 125: run returned an error and expect panics
HostInitFail ==
    /\ pc = "resolved"
    /\ pc' = "aborted"
    /\ UNCHANGED <<inputs, file, ws_port, startup, last, mapConfig,
                   invocations, attempts, hostVars, threads>>

\* A setup that spawns the navigation thread without looking for the window.
Setup_NoWindowCheck ==
    /\ pc = "host_init"
    /\ \E w \in BOOLEAN :
         /\ window' = Some(w)
         /\ nav' = "spawned"
         /\ dev' = IF w /\ devtools THEN "spawned" ELSE dev
    /\ setupResult' = Some("Ok")
    /\ pc' = "running"
    /\ UNCHANGED <<inputs, file, ws_port, startup, last, mapConfig,
                   invocations, attempts, navScript, navOutcome, navCount, threads>>

\* the setup closure, lines 96-123: with a main window it spawns the
\* navigation thread and, in a devtools build, the devtools thread; it
\* returns Ok either way.
Setup ==
    /\ pc = "host_init"
    /\ \E w \in BOOLEAN :
         /\ window' = Some(w)
         /\ nav' = IF w THEN "spawned" ELSE nav
         /\ dev' = IF w /\ devtools THEN "spawned" ELSE dev
    /\ setupResult' = Some("Ok")
    /\ pc' = "running"
    /\ UNCHANGED <<inputs, file, ws_port, startup, last, mapConfig,
                   invocations, attempts, navScript, navOutcome, navCount, threads>>

\* the navigation thread, lines 104-109: after the sleep it evaluates the
\* script once and drops the result
NavTask ==
    /\ pc = "running"
    /\ nav = "spawned"
    /\ \E res \in {"Ok", "Err"} : navOutcome' = Some(res)
    /\ navScript' = Some(NavUrl(Unwrap(ws_port)))
    /\ navCount' = navCount + 1
    /\ nav' = "done"
    /\ UNCHANGED <<inputs, file, pc, ws_port, startup, last, mapConfig,
                   invocations, attempts, window, setupResult, dev, threads>>

\* the devtools thread, lines 112-120
DevtoolsTask ==
    /\ pc = "running"
    /\ dev = "spawned"
    /\ dev' = "opened"
    /\ UNCHANGED <<inputs, file, pc, ws_port, startup, last, mapConfig,
                   invocations, attempts, window, setupResult, nav, navScript,
                   navOutcome, navCount, threads>>

\* the get_ws_port host command, lines 8-44
CmdGetWsPort ==
    /\ pc = "running"
    /\ invocations <= MaxCalls
    /\ \E ts \in Timestamps, d \in DirStates :
         LET r == get_ws_port(argv, envPort, exe, ts, d, file)
         IN  /\ Call("get_ws_port", r)
             /\ pc' = IF IsSome(r.ret) THEN pc ELSE "panicked"
    /\ UNCHANGED <<inputs, ws_port, startup, mapConfig, hostVars, threads>>

\* the get_map_config host command, lines 79-85
CmdGetMapConfig ==
    /\ pc = "running"
    /\ invocations <= MaxCalls
    /\ \E ts \in Timestamps, d \in DirStates :
         LET r == get_ws_port(argv, envPort, exe, ts, d, file)
         IN  /\ Call("get_map_config", r)
             /\ mapConfig' = IF IsSome(r.ret) THEN Some(get_map_config(envToken, r))
                             ELSE mapConfig
             /\ pc' = IF IsSome(r.ret) THEN pc ELSE "panicked"
    /\ UNCHANGED <<inputs, ws_port, startup, hostVars, threads>>

\* the host's event loop ends and run returns
HostExit ==
    /\ pc = "running"
    /\ pc' = "exited"
    /\ UNCHANGED <<inputs, file, ws_port, startup, last, mapConfig,
                   invocations, attempts, hostVars, threads>>

Next ==
    \/ Startup
    \/ HostInit
    \/ HostInitFail
    \/ Setup
    \/ NavTask
    \/ DevtoolsTask
    \/ CmdGetWsPort
    \/ CmdGetMapConfig
    \/ HostExit

Spec == Init /\ [][Next]_vars

\* The resolver over the wide input sets: the start-up call and the two host
\* commands, without the host's background threads.
InitResolve == InitWith(WideArgvs, WideEnvs, {None}, {None, Some(BuildLayout)}, {FALSE})
NextResolve ==
    \/ Startup
    \/ HostInit
    \/ Setup
    \/ CmdGetWsPort
    \/ CmdGetMapConfig
SpecResolve == InitResolve /\ [][NextResolve]_vars

\* ------------------------------------------------------------- interleaving
\* The host commands taken apart at the system calls of fs::write (open with
\* truncation, then writes at the writer's own offset), so that invocations
\* on different threads interleave.  Nothing in main.rs locks the file.
Hole == [k |-> "hole", v |-> <<>>]
Max(a, b) == IF a >= b THEN a ELSE b

\* write(2) of lines at offset off of a file opened without O_APPEND
WriteAt(cur, off, lines) ==
    [i \in 1..Max(Len(cur), off + Len(lines)) |->
        IF i > off /\ i <= off + Len(lines) THEN lines[i - off]
        ELSE IF i <= Len(cur) THEN cur[i]
        ELSE Hole]

\* the timestamp of the commands in flight: they are formatted within the
\* same second, the latest one of the model
ConcTimestamp == <<"2024-05-01 10:00:01">>

\* A command that resolves without the argument list.
Invoke_NoArgs(t, c) ==
    /\ pc = "running"
    /\ threads[t].st = "idle"
    /\ \A u \in 1..(t - 1) : threads[u].st # "idle"
    /\ LET port == ResolvePort(<<Argv0>>, envPort)
           target == TargetPath(exe)
       IN  /\ threads' = [threads EXCEPT ![t] =
                  [st |-> IF target.panic \/ ~IsSome(target.path) THEN "done" ELSE "opening",
                   caller |-> c, port |-> port,
                   content |-> ConfigContent(port, ConcTimestamp), off |-> 0,
                   res |-> IF target.panic THEN "panicked"
                           ELSE IF ~IsSome(target.path) THEN "no_path" ELSE "opening"]]
           /\ pc' = IF target.panic THEN "panicked" ELSE pc
    /\ invocations' = invocations + 1
    /\ attempts' = attempts + 1
    /\ UNCHANGED <<inputs, file, ws_port, startup, last, mapConfig, hostVars>>

\* lines 9-38 and 48-69 of a command invoked on thread t by its caller c:
\* the port is resolved, the path computed and the payload formatted
Invoke(t, c) ==
    /\ pc = "running"
    /\ threads[t].st = "idle"
    /\ \A u \in 1..(t - 1) : threads[u].st # "idle"
    /\ LET port == ResolvePort(argv, envPort)
           target == TargetPath(exe)
       IN  /\ threads' = [threads EXCEPT ![t] =
                  [st |-> IF target.panic \/ ~IsSome(target.path) THEN "done" ELSE "opening",
                   caller |-> c, port |-> port,
                   content |-> ConfigContent(port, ConcTimestamp), off |-> 0,
                   res |-> IF target.panic THEN "panicked"
                           ELSE IF ~IsSome(target.path) THEN "no_path" ELSE "opening"]]
           /\ pc' = IF target.panic THEN "panicked" ELSE pc
    /\ invocations' = invocations + 1
    /\ attempts' = attempts + 1
    /\ UNCHANGED <<inputs, file, ws_port, startup, last, mapConfig, hostVars>>

\* line 71, the open of fs::write
OpenStep(t) ==
    /\ pc = "running"
    /\ threads[t].st = "opening"
    /\ \E d \in DirStates :
         LET w == FsWrite(d, file, <<>>)
         IN  /\ file' = w.file
             /\ threads' = [threads EXCEPT
                    ![t].st = IF d = "writable" THEN "writing" ELSE "done",
                    ![t].res = IF d = "writable" THEN "writing" ELSE "write_failed"]
    /\ UNCHANGED <<inputs, pc, ws_port, startup, last, mapConfig, invocations,
                   attempts, hostVars>>

\* line 71, one write of write_all: all the remaining lines, a short write
\* of a multiple of WriteChunk lines, or (n = 0) an error
WriteStep(t) ==
    /\ pc = "running"
    /\ threads[t].st = "writing"
    /\ \E n \in 0..(Len(threads[t].content) - threads[t].off) :
         LET th == threads[t]
             off2 == th.off + n
         IN  /\ n = Len(th.content) - th.off \/ n % WriteChunk = 0
             /\ IF n = 0
                THEN /\ file' = file
                     /\ threads' = [threads EXCEPT ![t].st = "done",
                                                   ![t].res = "write_failed"]
                ELSE /\ file' = IF IsSome(file)
                                THEN Some(WriteAt(Unwrap(file), th.off,
                                                  SubSeq(th.content, th.off + 1, off2)))
                                ELSE file
                     /\ threads' = [threads EXCEPT
                            ![t].off = off2,
                            ![t].st = IF off2 = Len(th.content) THEN "done" ELSE "writing",
                            ![t].res = IF off2 = Len(th.content) THEN "written"
                                       ELSE "writing"]
    /\ UNCHANGED <<inputs, pc, ws_port, startup, last, mapConfig, invocations,
                   attempts, hostVars>>

\* lines 43 and 81-84: the command returns its value to the caller
Return(t) ==
    /\ pc = "running"
    /\ threads[t].st = "done"
    /\ threads' = [threads EXCEPT ![t].st = "returned"]
    /\ mapConfig' = IF threads[t].caller = "get_map_config"
                    THEN Some(get_map_config(envToken, [ret |-> Some(threads[t].port)]))
                    ELSE mapConfig
    /\ UNCHANGED <<inputs, file, pc, ws_port, startup, last, invocations, attempts,
                   hostVars>>

NextConc ==
    \/ Startup
    \/ HostInit
    \/ HostInitFail
    \/ Setup
    \/ NavTask
    \/ DevtoolsTask
    \/ HostExit
    \/ \E t \in 1..MaxThreads, c \in {"get_ws_port", "get_map_config"} : Invoke(t, c)
    \/ \E t \in 1..MaxThreads : OpenStep(t)
    \/ \E t \in 1..MaxThreads : WriteStep(t)
    \/ \E t \in 1..MaxThreads : Return(t)

InitConc ==
    InitWith({<<Argv0, WsPortPrefix \o ToStr(9999)>>}, {Some(ToStr(7000))},
             {None}, {Some(BuildLayout)}, {TRUE})
SpecConc == InitConc /\ [][NextConc]_vars

\* ------------------------------------------------------------- properties
LastCall == Unwrap(last).call
LastPub == LastCall.pubs[1]
StartupPub == Unwrap(startup).pubs[1]
FirstArg == argv[2]
Url9999 == <<"m", "a", "p", "b", "o", "x", ".", "h", "t", "m", "l", "?",
             "p", "o", "r", "t", "=", "9", "9", "9", "9">>
NavPort == ParseU16(StripPrefix(Unwrap(navScript), NavUrlPrefix))

C3_PublicationNeverPropagates ==
    /\ pc # "panicked"
    /\ IsSome(last) => LastCall.ret = Some(LastCall.port)

\* C4: a publication attempt that does not write the artifact emits a
\* diagnostic: every attempt ends with the artifact written or an error
\* on the diagnostic stream.
C4_FailureIsLogged ==
    IsSome(last) =>
        \A i \in 1..Len(LastCall.pubs) :
            LastCall.pubs[i].outcome = "written" \/ LastCall.pubs[i].diag # "none"

\* C5: after a call whose write succeeded the artifact holds exactly one
\* declaration, whose port field and whose log statement both read back as
\* the port the call returned, and nothing of an earlier publication.
C5_ArtifactRoundTrip ==
    (IsSome(last) /\ Len(LastCall.pubs) = 1 /\ LastPub.outcome = "written")
    => /\ IsSome(file)
       /\ Len(Unwrap(file)) = 6
       /\ Cardinality(Declarations(Unwrap(file))) = 1
       /\ PortFields(Unwrap(file)) = {LastCall.ret}
       /\ LoggedPorts(Unwrap(file)) = {LastCall.ret}

C5_Witness ==
    /\ invocations >= 2
    /\ StartupPub.outcome = "written"
    /\ LastPub.outcome = "written"
    /\ file # StartupPub.file
    /\ PortFields(Unwrap(file)) = {Some(9999)}

\* C6: every call of the resolver, from main or from either host command,
\* makes exactly one publication attempt: after k calls there have been k
\* attempts.
C6_OnePublicationPerCall ==
    /\ attempts = invocations
    /\ IsSome(last) => Len(LastCall.pubs) = 1

C6_Witness ==
    /\ invocations = 3
    /\ attempts = 3
    /\ Unwrap(last).caller = "get_map_config"
    /\ IsSome(file)

\* C7: the navigation script targets mapbox.html?port=P, P the port main
\* resolved at start-up; with --ws-port=9999 and the variable unset it is
\* mapbox.html?port=9999; P is the port field of the artifact the start-up
\* call wrote; and evaluating the script resolves nothing.
C7_NavigationTarget ==
    /\ [](IsSome(navScript) =>
            /\ StartsWith(Unwrap(navScript), NavUrlPrefix)
            /\ NavPort = ws_port
            /\ NavPort = Unwrap(startup).ret
            /\ StartupPub.outcome = "written" => PortFields(Unwrap(StartupPub.file)) = {NavPort}
            /\ (argv = <<Argv0, WsPortPrefix \o ToStr(9999)>> /\ envPort = None)
                  => Unwrap(navScript) = Url9999)
    /\ [][navCount' # navCount => invocations' = invocations /\ attempts' = attempts]_vars

C7_Witness ==
    /\ argv = <<Argv0, WsPortPrefix \o ToStr(9999)>>
    /\ envPort = None
    /\ navScript = Some(Url9999)
    /\ StartupPub.outcome = "written"

\* C8: every call of get_ws_port that returns gives the port main resolved
\* at start-up; every get_map_config result has that port as wsPort and the
\* value of MAPBOX_TOKEN, or null when it is unset, as mapboxToken.
C8_RepeatedResolutionAgrees ==
    /\ (IsSome(last) /\ IsSome(LastCall.ret)) => LastCall.ret = ws_port
    /\ IsSome(mapConfig) =>
         /\ Some(Unwrap(mapConfig).wsPort) = ws_port
         /\ Unwrap(mapConfig).wsPort = Unwrap(Unwrap(startup).ret)
         /\ Unwrap(mapConfig).mapboxToken = envToken

C8_Witness ==
    /\ IsSome(mapConfig)
    /\ Unwrap(mapConfig).mapboxToken = Some("pk.token")
    /\ Unwrap(mapConfig).wsPort = 9999
    /\ envPort = Some(ToStr(7000))
    /\ invocations = 3

\* C9: the start-up resolution and its publication attempt are over before
\* the host is initialised; the navigation thread exists only when setup
\* found the main window; the script is evaluated at most once; setup
\* returns Ok and the host runs on whether the evaluation succeeded,
\* failed or never happened.
HostStarted == pc \in {"host_init", "running", "exited", "aborted"}
C9_StartupOrder ==
    /\ HostStarted => (IsSome(startup) /\ IsSome(ws_port) /\ invocations >= 1 /\ attempts >= 1)
    /\ nav # "none" => (window = Some(TRUE) /\ setupResult = Some("Ok"))
    /\ navCount <= 1
    /\ navCount = 1 <=> nav = "done"
    /\ pc \in {"running", "exited"} => setupResult = Some("Ok")
    /\ IsSome(navOutcome) => pc \in {"running", "exited"}
    /\ IsSome(setupResult) => pc \in {"running", "exited"}

C9_Witness ==
    /\ pc = "running"
    /\ navOutcome = Some("Err")
    /\ navCount = 1
    /\ setupResult = Some("Ok")

\* C10: whatever the interleaving of the host commands' file operations and
\* of the navigation and devtools threads, every invocation carries the
\* port main resolved, no port field of the artifact ever names another
\* port, and once every write has completed successfully the artifact's
\* port field is that port, which is also the port of the navigation URL.
Started(t) == threads[t].st # "idle"
AllWritesSucceeded ==
    /\ IsSome(startup)
    /\ StartupPub.outcome = "written"
    /\ \A t \in 1..MaxThreads : Started(t) => threads[t].res = "written"
C10_SamePortUnderInterleaving ==
    /\ \A t \in 1..MaxThreads : Started(t) => Some(threads[t].port) = ws_port
    /\ IsSome(file) => PortFields(Unwrap(file)) \subseteq {ws_port}
    /\ AllWritesSucceeded =>
         /\ IsSome(file)
         /\ PortFields(Unwrap(file)) = {ws_port}
         /\ IsSome(navScript) => NavPort = ws_port

C10_Witness ==
    /\ \A t \in 1..2 : threads[t].st = "returned" /\ threads[t].res = "written"
    /\ StartupPub.outcome = "written"
    /\ nav = "done"
    /\ dev = "opened"
    /\ PortFields(Unwrap(file)) = {Some(9999)}

====
